---- MODULE Spec2Model ----
(***************************************************************************)
(* A model of job_search_agent.py: the criteria matcher (matches_criteria), *)
(* the email drafting step (draft_email), the single-listing submit flow    *)
(* and the "Paste CSV/JSON" batch flow with the tracking worksheet.         *)
(*                                                                          *)
(* Python values are tagged records: a str, an int, None, or "absent" (the  *)
(* key is not in the dict).  Strings are TLA+ strings, used as sequences of *)
(* characters (Len, SubSeq, \o).                                            *)
(***************************************************************************)
EXTENDS Integers, Sequences, FiniteSets, TLC

VARIABLES
    job,             \* SpecMatch: the listing handed to the pure functions
    decision,        \* SpecMatch: what matches_criteria(job) gave
    draft,           \* SpecMatch: what draft_email(job) gave
    sheet,           \* the spreadsheet: does "Job Applications" exist, its rows
    pc,              \* "idle", "loop" (inside the batch for-loop), "done"
    flow,            \* the handler that ran last: "none", "single", "batch"
    text,            \* the bulk text of the running/last batch submission
    jobs,            \* the parsed batch (single flow: the one form listing)
    idx,             \* 1-based position of the for-loop in jobs
    matching_count,  \* line 260
    rejected_count,  \* line 261
    msgs,            \* st.error / st.warning / st.success / st.info of this run
    outcome,         \* how the handler ended
    failure,         \* the collaborator failure injected in this run
    sheetCalls,      \* history: spreadsheet API calls made in this run
    appended,        \* history: indices of jobs whose row was appended
    rowsBefore,      \* history: the rows when this run began
    sheet0           \* history: the spreadsheet before the first submission

vars == <<job, decision, draft, sheet, pc, flow, text, jobs, idx,
          matching_count, rejected_count, msgs, outcome, failure,
          sheetCalls, appended, rowsBefore, sheet0>>

matchVars == <<job, decision, draft>>
appVars == <<sheet, pc, flow, text, jobs, idx, matching_count, rejected_count,
             msgs, outcome, failure, sheetCalls, appended, rowsBefore, sheet0>>

----------------------------------------------------------------------------
(* Python values *)

Str(s) == [t |-> "str", s |-> s, n |-> 0]
Num(n) == [t |-> "num", s |-> "", n |-> n]
None == [t |-> "none", s |-> "", n |-> 0]
Absent == [t |-> "absent", s |-> "", n |-> 0]

FieldNames == {"title", "company_name", "salary_min", "location",
               "company_stage", "company_description", "job_url"}

\* dict.get(key, default): the default only when the key is absent; a key
\* that is present with value None gives None.
Get(j, key, default) == IF j[key].t = "absent" THEN default ELSE j[key]

UpperChars == "ABCDEFGHIJKLMNOPQRSTUVWXYZ"
LowerChars == "abcdefghijklmnopqrstuvwxyz"

LowerMap ==
    [c \in {SubSeq(UpperChars, i, i) : i \in 1..Len(UpperChars)} |->
        LET i == CHOOSE k \in 1..Len(UpperChars) : SubSeq(UpperChars, k, k) = c
        IN SubSeq(LowerChars, i, i)]

LowerChar(c) == IF c \in DOMAIN LowerMap THEN LowerMap[c] ELSE c

\* str.lower()
RECURSIVE Lower(_)
Lower(s) ==
    IF s = "" THEN ""
    ELSE LowerChar(SubSeq(s, 1, 1)) \o Lower(SubSeq(s, 2, Len(s)))

\* needle in hay (substring test)
In(needle, hay) ==
    \E i \in 0..(Len(hay) - Len(needle)) :
        SubSeq(hay, i + 1, i + Len(needle)) = needle

----------------------------------------------------------------------------
(* matches_criteria *)

acceptable_titles ==
    <<"VP Sales", "VP of Sales", "Head of Sales", "VP Business Development",
      "VP, Sales", "VP - Sales", "Vice President Sales",
      "Vice President of Sales", "Sales VP", "Chief Revenue Officer">>

stage_keywords ==
    <<"growth", "series", "seed", "early stage", "1st hire", "first hire",
      "first vp", "1st vp", "scaling", "pre-series">>

Raise(e) == [raised |-> TRUE, exc |-> e, ok |-> FALSE, reason |-> ""]
Return(ok, reason) == [raised |-> FALSE, exc |-> "", ok |-> ok, reason |-> reason]

TitleFail == "Title doesn't match criteria"
StageFail == "Company stage not growth stage or seeking first VP Sales"
\* the success reason of line 83, without its leading check mark
Success == "Matches all criteria"

\* title.lower() for title in acceptable_titles
acceptable_lower ==
    [k \in DOMAIN acceptable_titles |-> Lower(acceptable_titles[k])]

\* line 53, for a title that is a str
title_match(title) ==
    LET lowered == Lower(title) IN
    \E k \in DOMAIN acceptable_lower : In(acceptable_lower[k], lowered)

Min170 == 170000
Min250 == 250000

\* lines 62-72, for an int salary and the lowered location: the reason of the
\* failing branch, or "" when the compensation rule passes.
compensation_inclusive(salary, location) ==
    IF In("remote", location) \/ In("nevada", location) \/ location = ""
    THEN IF salary <= Min170
         THEN "Salary $" \o ToString(salary) \o " below $170k minimum for remote/Nevada"
         ELSE ""
    ELSE IF \/ In("california", location) \/ In("ca", location)
            \/ In("sf", location) \/ In("san francisco", location)
            \/ In("los angeles", location) \/ In("la", location)
    THEN IF salary <= Min170
         THEN "Salary $" \o ToString(salary) \o " below $170k minimum"
         ELSE ""
    ELSE IF salary <= Min250
         THEN "Salary $" \o ToString(salary) \o " below $250k minimum for out-of-state relocation"
         ELSE ""

compensation(salary, location) ==
    IF In("remote", location) \/ In("nevada", location) \/ location = ""
    THEN IF salary < Min170
         THEN "Salary $" \o ToString(salary) \o " below $170k minimum for remote/Nevada"
         ELSE ""
    ELSE IF \/ In("california", location) \/ In("ca", location)
            \/ In("sf", location) \/ In("san francisco", location)
            \/ In("los angeles", location) \/ In("la", location)
    THEN IF salary < Min170
         THEN "Salary $" \o ToString(salary) \o " below $170k minimum"
         ELSE ""
    ELSE IF salary < Min250
         THEN "Salary $" \o ToString(salary) \o " below $250k minimum for out-of-state relocation"
         ELSE ""

\* lines 75-80, for a company_stage that is a str: does the stage rule fail
stage_fails_on_empty(stage) ==
    ~ \E k \in DOMAIN stage_keywords : In(stage_keywords[k], Lower(stage))

stage_fails(stage) ==
    /\ ~ \E k \in DOMAIN stage_keywords : In(stage_keywords[k], Lower(stage))
    /\ stage # ""

\* lines 74-83
stage_rule(j) ==
    LET stage == Get(j, "company_stage", Str("")) IN
    IF stage.t # "str" THEN Raise("AttributeError")        \* .lower() of None/int
    ELSE IF stage_fails(stage.s) THEN Return(FALSE, StageFail)
    ELSE Return(TRUE, Success)

\* lines 57-72, then the stage rule
compensation_rule(j) ==
    LET salary == Get(j, "salary_min", Num(0))
        loc == Get(j, "location", Str(""))
    IN  IF loc.t # "str" THEN Raise("AttributeError")      \* .lower() of None/int
        ELSE IF salary.t # "num" THEN Raise("TypeError")   \* str < int, None < int
        ELSE IF compensation(salary.n, Lower(loc.s)) # ""
             THEN Return(FALSE, compensation(salary.n, Lower(loc.s)))
        ELSE stage_rule(j)

matches_criteria_stage_first(j) ==
    IF j.kind # "dict" THEN Raise("AttributeError")
    ELSE LET title == Get(j, "title", Str("")) IN
         IF title.t # "str" THEN Raise("AttributeError")
         ELSE IF ~ title_match(title.s) THEN Return(FALSE, TitleFail)
         ELSE IF stage_rule(j).raised \/ ~ stage_rule(j).ok THEN stage_rule(j)
         ELSE compensation_rule(j)

matches_criteria(j) ==
    IF j.kind # "dict" THEN Raise("AttributeError")        \* no .get on int/str/None
    ELSE LET title == Get(j, "title", Str("")) IN
         IF title.t # "str" THEN Raise("AttributeError")   \* .lower() of None/int
         ELSE IF ~ title_match(title.s) THEN Return(FALSE, TitleFail)
         ELSE compensation_rule(j)

----------------------------------------------------------------------------
(* draft_email *)

Pad3(n) ==
    IF n < 10 THEN "00" \o ToString(n)
    ELSE IF n < 100 THEN "0" \o ToString(n)
    ELSE ToString(n)

\* format(n, ",") for a non-negative int
RECURSIVE FormatGrouped(_)
FormatGrouped(n) ==
    IF n < 1000 THEN ToString(n)
    ELSE FormatGrouped(n \div 1000) \o "," \o Pad3(n % 1000)

Drafted(s) == [raised |-> FALSE, exc |-> "", text |-> s]
DraftRaise(e) == [raised |-> TRUE, exc |-> e, text |-> ""]

\* lines 89-114: the f-string is built before the try block; its
\* {job.get('salary_min', 'TBD'):,} applies the "," format to whatever the
\* value is.  The result is the formatted salary, or the exception.
prompt_salary(j) ==
    LET salary == Get(j, "salary_min", Str("TBD")) IN
    IF salary.t = "num" THEN Drafted("$" \o FormatGrouped(salary.n))
    ELSE IF salary.t = "str" THEN DraftRaise("ValueError")  \* ',' with 's'
    ELSE DraftRaise("TypeError")                            \* NoneType.__format__

\* lines 86-126; llm is the outcome of client.messages.create
draft_email(j, llm) ==
    IF j.kind # "dict" THEN DraftRaise("AttributeError")
    ELSE IF prompt_salary(j).raised THEN prompt_salary(j)
    ELSE IF llm = "ok" THEN Drafted("draft")
    ELSE Drafted("Error generating email: " \o llm)

LlmOutcomes == {"ok", "APIConnectionError"}

----------------------------------------------------------------------------
(* The listings the pure functions are applied to *)

Listing(kind, title, salary, location, stage) ==
    [kind |-> kind, title |-> title, company_name |-> Absent,
     salary_min |-> salary, location |-> location, company_stage |-> stage,
     company_description |-> Absent, job_url |-> Absent]

\* json.loads of a JSON scalar: no dict at all
ScalarJob == Listing("scalar", Absent, Absent, Absent, Absent)

Titles == {Absent, None, Num(5), Str(""), Str("VP SALES"),
           Str("Account Executive"), Str("Senior Vice President of Sales, EMEA"),
           Str("chief revenue officer")}
Salaries == {Absent, None, Str("200000"), Num(0), Num(169999), Num(170000),
             Num(249999), Num(250000)}
Locations == {Absent, None, Str(""), Str("Remote"), Str("Reno, NEVADA"),
              Str("Texas"), Str("Canada"), Str("Atlanta"), Str("Remote (Texas)"),
              Str("San Francisco"), Str("New York")}
Stages == {Absent, None, Str(""), Str("Series B"), Str("GROWTH"),
           Str("Mature public company")}

Listings ==
    {Listing("dict", t, s, l, g) :
        t \in Titles, s \in Salaries, l \in Locations, g \in Stages}
    \cup {ScalarJob}

NotYet == [done |-> FALSE, raised |-> FALSE, exc |-> "", ok |-> FALSE,
           reason |-> "", text |-> ""]
Decided(r) == [done |-> TRUE, raised |-> r.raised, exc |-> r.exc, ok |-> r.ok,
               reason |-> r.reason, text |-> ""]
DraftDone(r) == [done |-> TRUE, raised |-> r.raised, exc |-> r.exc, ok |-> FALSE,
                 reason |-> "", text |-> r.text]

----------------------------------------------------------------------------
(* The tracking worksheet *)

headers ==
    <<Str("Date Added"), Str("Company"), Str("Position"), Str("Location"),
      Str("Salary"), Str("Stage"), Str("Status"), Str("Applied Date"),
      Str("Notes"), Str("URL")>>

\* datetime.now().strftime('%Y-%m-%d'): some date, never empty
Today == Str("2025-02-01")
\* the status cell of lines 215 and 273, without its leading clipboard sign
ToApply == Str("To Apply")

\* ws.cell(1, 1).value is None
A1Empty(rows) == rows = <<>> \/ rows[1][1].t = "none" \/ rows[1][1] = Str("")

\* lines 208-219: the row of the single-listing flow (the form fills every
\* key; date_added is today's date, line 186)
single_row(j) ==
    <<Today, Get(j, "company_name", None),
      Get(j, "title", None), Get(j, "location", None),
      Str("$" \o FormatGrouped(j.salary_min.n)),
      Get(j, "company_stage", None), ToApply, Str(""),
      Get(j, "company_description", Str("")), Get(j, "job_url", Str(""))>>

\* lines 266-277: the row of the batch flow
batch_row(j) ==
    <<Today, Get(j, "company_name", Str("")), Get(j, "title", Str("")),
      Get(j, "location", Str("")),
      Str("$" \o FormatGrouped(Get(j, "salary_min", Num(0)).n)),
      Get(j, "company_stage", Str("")), ToApply, Str(""),
      Get(j, "company_description", Str("")), Get(j, "job_url", Str(""))>>

Msg(kind, txt) == [kind |-> kind, text |-> txt]

CredentialFailures == {"no_credentials", "no_sheet_id", "connect_error"}
TrackerFailures == {"worksheet", "add_worksheet", "cell", "append_header"}
EnvFailures == {"none"} \cup CredentialFailures \cup TrackerFailures

\* lines 17-42; e is what goes wrong in this run.  The result: is there a
\* sheet, and the st.error the function shows when there is none.
get_gsheet_silent(e) ==
    [ok |-> e \notin CredentialFailures, msgs |-> <<>>]

get_gsheet(e) ==
    IF e = "no_credentials"
    THEN [ok |-> FALSE,
          msgs |-> <<Msg("error", "Google credentials not configured. See setup instructions.")>>]
    ELSE IF e = "no_sheet_id"
    THEN [ok |-> FALSE,
          msgs |-> <<Msg("error", "GOOGLE_SHEET_ID not configured in secrets.")>>]
    ELSE IF e = "connect_error"
    THEN [ok |-> FALSE,
          msgs |-> <<Msg("error", "Error connecting to Google Sheets: " \o e)>>]
    ELSE [ok |-> TRUE, msgs |-> <<>>]

\* gspread's append_row: the values go below the last row of the table
append_row(rows, row) == Append(rows, row)

\* lines 246-257 (and the same code at lines 194-205): get or create the
\* worksheet, then write the header row if cell A1 is empty.  A bare except
\* turns any failure of sheet.worksheet into add_worksheet, which fails when
\* the worksheet is there already.
\* The result: ok, the spreadsheet afterwards, the API calls made, and the
\* failure that happened ("none": e names a call this run did not make).
header_always(sh, e) ==
    [ok |-> TRUE, sheet |-> [exists |-> TRUE, rows |-> append_row(sh.rows, headers)],
     calls |-> 3, failure |-> "none"]

open_tracker(sh, e) ==
    IF sh.exists /\ e = "worksheet"
    THEN [ok |-> FALSE, sheet |-> sh, calls |-> 2, failure |-> e]
    ELSE IF ~ sh.exists /\ e = "add_worksheet"
    THEN [ok |-> FALSE, sheet |-> sh, calls |-> 2, failure |-> e]
    ELSE LET made == [exists |-> TRUE, rows |-> sh.rows]
             n == IF sh.exists THEN 1 ELSE 2
         IN  IF e = "cell"
             THEN [ok |-> FALSE, sheet |-> made, calls |-> n + 1, failure |-> e]
             ELSE IF ~ A1Empty(sh.rows)
             THEN [ok |-> TRUE, sheet |-> made, calls |-> n + 1, failure |-> "none"]
             ELSE IF e = "append_header"
             THEN [ok |-> FALSE, sheet |-> made, calls |-> n + 2, failure |-> e]
             ELSE [ok |-> TRUE,
                   sheet |-> [exists |-> TRUE, rows |-> append_row(sh.rows, headers)],
                   calls |-> n + 2, failure |-> "none"]

LogError(e) == Msg("error", "Error logging to sheet: " \o e)

----------------------------------------------------------------------------
(* The single-listing flow, lines 177-225 *)

Result(sh, m, o, f, c, a) ==
    [sheet |-> sh, msgs |-> m, outcome |-> o, failure |-> f, calls |-> c,
     appended |-> a]

\* e: the collaborator failure of this run; a: does the data row's append_row
\* succeed ("ok") or raise ("fail")
single_submit(j, sh, e, a) ==
    LET m == matches_criteria(j)
        g == get_gsheet(e)
        o == open_tracker(sh, e)
    IN  IF m.raised THEN Result(sh, <<Msg("exception", m.exc)>>, "crashed", "none", 0, <<>>)
        ELSE IF ~ m.ok THEN Result(sh, <<Msg("warning", m.reason)>>, "rejected", "none", 0, <<>>)
        ELSE IF ~ g.ok THEN Result(sh, g.msgs, "no_sheet", e, 1, <<>>)
        ELSE IF ~ o.ok
        THEN Result(o.sheet, <<LogError(o.failure)>>, "no_tracker", o.failure, 1 + o.calls, <<>>)
        ELSE IF a = "fail"
        THEN Result(o.sheet, <<LogError("append_row")>>, "aborted", "append_row",
                    2 + o.calls, <<>>)
        ELSE Result([exists |-> TRUE, rows |-> append_row(o.sheet.rows, single_row(j))],
                    <<Msg("success", m.reason \o " Added to tracker!")>>,
                    "completed", "none", 2 + o.calls, <<1>>)

----------------------------------------------------------------------------
(* The bulk text and its parsing, lines 232-241 *)

\* The text is kept in parsed shape: what json.loads gives for it, or, when
\* json.loads rejects it, the lines and cells csv.reader splits it into.
JsonArray(items) == [fmt |-> "json_array", items |-> items, header |-> <<>>, rows |-> <<>>]
JsonObject(obj) == [fmt |-> "json_object", items |-> <<obj>>, header |-> <<>>, rows |-> <<>>]
JsonScalar == [fmt |-> "json_scalar", items |-> <<>>, header |-> <<>>, rows |-> <<>>]
Csv(header, rows) == [fmt |-> "csv", items |-> <<>>, header |-> header, rows |-> rows]

\* csv.DictReader: one dict per non-empty line after the first; every value a
\* str, None (restval) for a column the line is too short for; a key only for
\* the names of the first line.
CsvCell(header, row, key) ==
    IF \E k \in DOMAIN header : header[k] = key
    THEN LET k == CHOOSE c \in DOMAIN header : header[c] = key
         IN IF k <= Len(row) THEN Str(row[k]) ELSE None
    ELSE Absent

CsvDict(header, row) ==
    [kind |-> "dict",
     title |-> CsvCell(header, row, "title"),
     company_name |-> CsvCell(header, row, "company_name"),
     salary_min |-> CsvCell(header, row, "salary_min"),
     location |-> CsvCell(header, row, "location"),
     company_stage |-> CsvCell(header, row, "company_stage"),
     company_description |-> CsvCell(header, row, "company_description"),
     job_url |-> CsvCell(header, row, "job_url")]

NonEmptyRow(r) == r # <<>>

DictReader(header, rows) ==
    IF header = <<>> THEN <<>>
    ELSE LET kept == SelectSeq(rows, NonEmptyRow)
         IN [k \in 1..Len(kept) |-> CsvDict(header, kept[k])]

\* lines 232-241: json.loads, a non-list wrapped in a list; on any exception
\* the csv reader
parse(t) ==
    IF t.fmt = "json_array" THEN t.items
    ELSE IF t.fmt = "json_object" THEN t.items
    ELSE IF t.fmt = "json_scalar" THEN <<ScalarJob>>
    ELSE DictReader(t.header, t.rows)

----------------------------------------------------------------------------
(* The batch flow, lines 231-288 *)

StartResult(js, sh, m, o, f, c, p) ==
    [jobs |-> js, sheet |-> sh, msgs |-> m, outcome |-> o, failure |-> f,
     calls |-> c, pc |-> p]

\* lines 232-257: up to the for-loop
batch_start(t, sh, e) ==
    LET js == parse(t)
        g == get_gsheet(e)
        o == open_tracker(sh, e)
    IN  IF js = <<>>
        THEN StartResult(js, sh,
                 <<Msg("error", "Could not parse jobs data. Try JSON or CSV format.")>>,
                 "not_parsed", "none", 0, "done")
        ELSE IF ~ g.ok THEN StartResult(js, sh, g.msgs, "no_sheet", e, 1, "done")
        ELSE IF ~ o.ok
        THEN StartResult(js, o.sheet, <<LogError(o.failure)>>, "no_tracker", o.failure,
                         1 + o.calls, "done")
        ELSE StartResult(js, o.sheet, <<>>, "running", "none", 1 + o.calls, "loop")

StepResult(rows, mc, rc, apd, m, o, f, p) ==
    [rows |-> rows, matching_count |-> mc, rejected_count |-> rc,
     appended |-> apd, msgs |-> m, outcome |-> o, failure |-> f, pc |-> p]

\* lines 263-280 and 285-286: one iteration of the for-loop on jobs[i]; an
\* exception of matches_criteria or of append_row leaves the loop for the
\* except clause of line 285.
batch_step_append_all(j, i, rows, mc, rc, apd, a) ==
    LET m == matches_criteria(j) IN
    IF m.raised
    THEN StepResult(rows, mc, rc, apd, <<LogError(m.exc)>>, "aborted", "none", "done")
    ELSE IF a = "fail"
    THEN StepResult(rows, mc, rc, apd, <<LogError("append_row")>>, "aborted",
                    "append_row", "done")
    ELSE StepResult(append_row(rows, batch_row(j)),
                    IF m.ok THEN mc + 1 ELSE mc, IF m.ok THEN rc ELSE rc + 1,
                    Append(apd, i), <<>>, "running", "none", "loop")

batch_step(j, i, rows, mc, rc, apd, a) ==
    LET m == matches_criteria(j) IN
    IF m.raised
    THEN StepResult(rows, mc, rc, apd, <<LogError(m.exc)>>, "aborted", "none", "done")
    ELSE IF m.ok
    THEN IF a = "fail"
         THEN StepResult(rows, mc, rc, apd, <<LogError("append_row")>>, "aborted",
                         "append_row", "done")
         ELSE StepResult(append_row(rows, batch_row(j)), mc + 1, rc, Append(apd, i),
                         <<>>, "running", "none", "loop")
    ELSE StepResult(rows, mc, rc + 1, apd, <<>>, "running", "none", "loop")

\* lines 282-284
batch_report(mc, rc) ==
    <<Msg("success", "Added " \o ToString(mc) \o " matching jobs to tracker!")>>
    \o (IF rc > 0
        THEN <<Msg("info", ToString(rc) \o " jobs didn't match your criteria")>>
        ELSE <<>>)

----------------------------------------------------------------------------
(* Inputs and bounds *)

MaxBatch == 2     \* listings (JSON items, CSV lines) in one bulk text
MaxRows == 4      \* rows of the worksheet

SeqsUpTo(S, n) == UNION {[1..k -> S] : k \in 0..n}

\* What the form of lines 166-175 gives: every key, text fields as str, the
\* salary as a number.
Form(title, salary, location, stage) ==
    [kind |-> "dict", title |-> Str(title), company_name |-> Str("Acme"),
     salary_min |-> Num(salary), location |-> Str(location),
     company_stage |-> Str(stage), company_description |-> Str(""),
     job_url |-> Str("")]

FormJobs ==
    {Form(t, s, "", g) :
        t \in {"VP Sales", "Account Executive"}, s \in {160000, 170000},
        g \in {"", "Mature public company"}}

ObjA == Listing("dict", Str("VP Sales"), Num(170000), Str("Remote"), Str("Series B"))
ObjB == Listing("dict", Str("Head of Sales"), Num(250000), Str("Texas"), Absent)
ObjReject == Listing("dict", Str("Account Executive"), Num(300000), Str("Remote"), Str("Growth"))

JsonItems == {ObjA, ObjB, ObjReject, ScalarJob}

CsvHeader == <<"title", "salary_min", "location", "company_stage">>
FreeHeader == <<"Dear hiring manager">>
CsvRows == {<<"VP Sales", "200000", "Remote", "Series B">>,
            <<"Account Executive", "90000", "Remote", "">>,
            <<"I am writing to apply">>}

BatchTexts ==
    {JsonArray(items) : items \in SeqsUpTo(JsonItems, MaxBatch)}
    \cup {JsonObject(o) : o \in {ObjA, ObjReject}}
    \cup {JsonScalar}
    \cup {Csv(h, r) : h \in {CsvHeader, FreeHeader}, r \in SeqsUpTo(CsvRows, MaxBatch)}
    \cup {Csv(<<>>, <<>>)}

OldRow == batch_row(ObjB)
ForeignRow == <<Str(""), Str("my notes"), Str(""), Str(""), Str(""), Str(""),
                Str(""), Str(""), Str(""), Str("")>>

\* The spreadsheet before the first submission: no worksheet, an empty one,
\* one this program has written to, or one whose cell A1 is blank.
Sheets0 ==
    {[exists |-> FALSE, rows |-> <<>>],
     [exists |-> TRUE, rows |-> <<>>],
     [exists |-> TRUE, rows |-> <<headers>>],
     [exists |-> TRUE, rows |-> <<headers, OldRow>>],
     [exists |-> TRUE, rows |-> <<ForeignRow>>]}

----------------------------------------------------------------------------
(* Specification of the application *)

InitApp ==
    /\ sheet0 \in Sheets0
    /\ sheet = sheet0
    /\ pc = "idle"
    /\ flow = "none"
    /\ text = Csv(<<>>, <<>>)
    /\ jobs = <<>>
    /\ idx = 1
    /\ matching_count = 0
    /\ rejected_count = 0
    /\ msgs = <<>>
    /\ outcome = "none"
    /\ failure = "none"
    /\ sheetCalls = 0
    /\ appended = <<>>
    /\ rowsBefore = sheet0.rows

Init ==
    /\ InitApp
    /\ job = ScalarJob
    /\ decision = NotYet
    /\ draft = NotYet

\* The "Add Job" button, lines 177-225
SubmitSingle(j, e, a) ==
    /\ pc = "idle"
    /\ Len(sheet.rows) + 2 <= MaxRows
    /\ LET r == single_submit(j, sheet, e, a) IN
        /\ sheet' = r.sheet
        /\ msgs' = r.msgs
        /\ outcome' = r.outcome
        /\ failure' = r.failure
        /\ sheetCalls' = r.calls
        /\ appended' = r.appended
    /\ flow' = "single"
    /\ jobs' = <<j>>
    /\ idx' = 1
    /\ matching_count' = 0
    /\ rejected_count' = 0
    /\ rowsBefore' = sheet.rows
    /\ pc' = "done"
    /\ UNCHANGED <<text, sheet0, matchVars>>

\* The "Parse & Auto-Add Matching Jobs" button, lines 231-261
BatchStart(t, e) ==
    /\ pc = "idle"
    /\ Len(sheet.rows) + 1 + Len(parse(t)) <= MaxRows
    /\ LET r == batch_start(t, sheet, e) IN
        /\ jobs' = r.jobs
        /\ sheet' = r.sheet
        /\ msgs' = r.msgs
        /\ outcome' = r.outcome
        /\ failure' = r.failure
        /\ sheetCalls' = r.calls
        /\ pc' = r.pc
    /\ flow' = "batch"
    /\ text' = t
    /\ idx' = 1
    /\ matching_count' = 0
    /\ rejected_count' = 0
    /\ appended' = <<>>
    /\ rowsBefore' = sheet.rows
    /\ UNCHANGED <<sheet0, matchVars>>

\* One pass of the for-loop, lines 263-280
BatchStep(a) ==
    /\ pc = "loop"
    /\ idx <= Len(jobs)
    /\ LET r == batch_step(jobs[idx], idx, sheet.rows, matching_count,
                           rejected_count, appended, a) IN
        /\ sheet' = [sheet EXCEPT !.rows = r.rows]
        /\ matching_count' = r.matching_count
        /\ rejected_count' = r.rejected_count
        /\ appended' = r.appended
        /\ msgs' = r.msgs
        /\ outcome' = r.outcome
        /\ failure' = r.failure
        /\ pc' = r.pc
        /\ sheetCalls' = IF r.rows # sheet.rows \/ r.failure # "none"
                         THEN sheetCalls + 1 ELSE sheetCalls
        /\ idx' = IF r.pc = "loop" THEN idx + 1 ELSE idx
    /\ UNCHANGED <<flow, text, jobs, rowsBefore, sheet0, matchVars>>

\* The end of the for-loop, lines 282-284
BatchFinish ==
    /\ pc = "loop"
    /\ idx > Len(jobs)
    /\ msgs' = batch_report(matching_count, rejected_count)
    /\ outcome' = "completed"
    /\ pc' = "done"
    /\ UNCHANGED <<sheet, flow, text, jobs, idx, matching_count, rejected_count,
                   failure, sheetCalls, appended, rowsBefore, sheet0, matchVars>>

\* Any other interaction: Streamlit runs the script again with neither button
\* pressed (lines 177 and 231 are false); the page is drawn afresh and nothing
\* of the last run is kept but the spreadsheet.
Rerun ==
    /\ pc = "done"
    /\ pc' = "idle"
    /\ flow' = "none"
    /\ text' = Csv(<<>>, <<>>)
    /\ jobs' = <<>>
    /\ idx' = 1
    /\ matching_count' = 0
    /\ rejected_count' = 0
    /\ msgs' = <<>>
    /\ outcome' = "none"
    /\ failure' = "none"
    /\ sheetCalls' = 0
    /\ appended' = <<>>
    /\ rowsBefore' = sheet.rows
    /\ UNCHANGED <<sheet, sheet0, matchVars>>

Next ==
    \/ \E j \in FormJobs, e \in EnvFailures, a \in {"ok", "fail"} : SubmitSingle(j, e, a)
    \/ \E t \in BatchTexts, e \in EnvFailures : BatchStart(t, e)
    \/ \E a \in {"ok", "fail"} : BatchStep(a)
    \/ BatchFinish
    \/ Rerun

Spec == Init /\ [][Next]_vars

----------------------------------------------------------------------------
(* Specification of the pure functions: a listing is drawn, and            *)
(* matches_criteria and draft_email are applied to it.                     *)

InitMatch ==
    /\ InitApp
    /\ sheet0 = [exists |-> FALSE, rows |-> <<>>]
    /\ job \in Listings
    /\ decision = NotYet
    /\ draft = NotYet

Evaluate ==
    /\ ~ decision.done
    /\ decision' = Decided(matches_criteria(job))
    /\ UNCHANGED <<job, draft, appVars>>

Draft(llm) ==
    /\ ~ draft.done
    /\ draft' = DraftDone(draft_email(job, llm))
    /\ UNCHANGED <<job, decision, appVars>>

NextMatch ==
    \/ Evaluate
    \/ \E llm \in LlmOutcomes : Draft(llm)

SpecMatch == InitMatch /\ [][NextMatch]_vars

----------------------------------------------------------------------------
(* The criteria as the specification words them *)

TextOf(v) == IF v.t = "str" THEN v.s ELSE ""
NumberOf(v) == IF v.t = "num" THEN v.n ELSE 0

\* every field is of its documented type, or absent
Typed(j) ==
    /\ j.kind = "dict"
    /\ j.title.t \in {"str", "absent"}
    /\ j.salary_min.t \in {"num", "absent"}
    /\ j.location.t \in {"str", "absent"}
    /\ j.company_stage.t \in {"str", "absent"}

TitlePasses(j) ==
    \E k \in DOMAIN acceptable_titles :
        In(Lower(acceptable_titles[k]), Lower(TextOf(j.title)))

FloorOf(j) ==
    LET loc == Lower(TextOf(j.location)) IN
    IF loc = "" \/ In("remote", loc) \/ In("nevada", loc) THEN 170000
    ELSE IF \E tok \in {"california", "ca", "sf", "san francisco", "los angeles", "la"} :
                In(tok, loc)
    THEN 170000
    ELSE 250000

SalaryPasses(j) == NumberOf(j.salary_min) >= FloorOf(j)

StagePasses(j) ==
    LET st == Lower(TextOf(j.company_stage)) IN
    st = "" \/ \E k \in DOMAIN stage_keywords : In(stage_keywords[k], st)

Satisfies(j) == Typed(j) /\ TitlePasses(j) /\ SalaryPasses(j) /\ StagePasses(j)

IsCompensationReason(r) == Len(r) >= 8 /\ SubSeq(r, 1, 8) = "Salary $"

IsPrefix(a, b) == Len(a) <= Len(b) /\ SubSeq(b, 1, Len(a)) = a

HasMsg(kind) == \E k \in DOMAIN msgs : msgs[k].kind = kind

----------------------------------------------------------------------------
(* Claims about matches_criteria and draft_email, under SpecMatch *)

\* C1: the decision carries the reason of the first failing rule in the order
\* title, compensation, stage: a title with none of the phrases gives the
\* title reason whatever the salary, location and stage are; a passing title
\* with a salary below the floor gives a compensation reason even when the
\* stage fails too; the success reason is given iff all three rules pass.
C1_FirstFailingRule ==
    decision.done =>
        /\ (job.kind = "dict" /\ job.title.t \in {"str", "absent"} /\ ~ TitlePasses(job))
              => (~ decision.raised /\ ~ decision.ok /\ decision.reason = TitleFail)
        /\ Typed(job) =>
              /\ ~ decision.raised
              /\ (TitlePasses(job) /\ ~ SalaryPasses(job))
                    => (~ decision.ok /\ IsCompensationReason(decision.reason))
              /\ (TitlePasses(job) /\ SalaryPasses(job) /\ ~ StagePasses(job))
                    => (~ decision.ok /\ decision.reason = StageFail)
              /\ (decision.reason = Success) <=> decision.ok
              /\ decision.ok <=> Satisfies(job)

C1_Witness ==
    /\ decision.done
    /\ Typed(job)
    /\ TitlePasses(job) /\ ~ SalaryPasses(job) /\ ~ StagePasses(job)
    /\ IsCompensationReason(decision.reason)

\* C2: for a passing title the compensation rule fails exactly when
\* salary_min is strictly below the floor of the location: 170000 for an
\* empty, "remote" or "nevada" location, 170000 for a California-area token
\* (also inside Canada or Atlanta), 250000 otherwise.
C2_FloorByLocation ==
    (decision.done /\ Typed(job) /\ TitlePasses(job)) =>
        /\ IsCompensationReason(decision.reason) <=> NumberOf(job.salary_min) < FloorOf(job)
        /\ IsCompensationReason(decision.reason) => ~ decision.ok

C2_Witness ==
    /\ decision.done
    /\ TitlePasses(job)
    /\ job.location = Str("Canada")
    /\ job.salary_min = Num(170000)
    /\ ~ IsCompensationReason(decision.reason)

\* C3: when title and compensation pass, a non-empty company_stage with none
\* of the stage keywords gives the stage-failure reason, and an empty or
\* absent company_stage gives a match.
C3_StageRule ==
    (decision.done /\ Typed(job) /\ TitlePasses(job) /\ SalaryPasses(job)) =>
        /\ (TextOf(job.company_stage) # "" /\ ~ StagePasses(job))
              => (~ decision.ok /\ decision.reason = StageFail)
        /\ (job.company_stage \in {Str(""), Absent})
              => (decision.ok /\ decision.reason = Success)

C3_Witness ==
    /\ decision.done
    /\ Typed(job) /\ TitlePasses(job) /\ SalaryPasses(job)
    /\ job.company_stage = Absent
    /\ decision.ok

\* C4: matches_criteria is total on every field-mapping the ingestion path
\* can produce (fields absent, str, number or None): it gives a decision and
\* never raises.
\* An absent field behaves like the empty string (title, location,
\* company_stage) or zero (salary_min).
Defaulted(j) ==
    [j EXCEPT !.title = Get(j, "title", Str("")),
              !.salary_min = Get(j, "salary_min", Num(0)),
              !.location = Get(j, "location", Str("")),
              !.company_stage = Get(j, "company_stage", Str(""))]

C4_Total ==
    (decision.done /\ job.kind = "dict") =>
        /\ ~ decision.raised
        /\ decision = Decided(matches_criteria(Defaulted(job)))

\* C8: draft_email always ends in a string, the draft or an error string, and
\* never raises, whatever salary_min is.
C8_DraftIsString ==
    (draft.done /\ job.kind = "dict") => ~ draft.raised

----------------------------------------------------------------------------
(* Claims about the submit flows, under Spec *)

\* the listings of the batch the for-loop has evaluated and counted
Counted == 1..(idx - 1)

\* C5: the batch never short-circuits: when a batch run over N parsed
\* listings (field-mappings) that reached the for-loop ends, every listing
\* has been evaluated and matching_count + rejected_count = N.
C5_NoShortCircuit ==
    (/\ flow = "batch" /\ pc = "done" /\ outcome \in {"completed", "aborted"}
     /\ \A k \in DOMAIN jobs : jobs[k].kind = "dict")
        => (idx = Len(jobs) + 1 /\ matching_count + rejected_count = Len(jobs))

\* C6: a collaborator failure is shown as an error message and never turns a
\* listing that satisfies the criteria into a non-match: no warning for it in
\* the single flow, and it is not counted in rejected_count in the batch flow.
C6_DecisionStands ==
    /\ (pc = "done" /\ failure # "none") => HasMsg("error")
    /\ (flow = "single" /\ pc = "done" /\ Satisfies(jobs[1])) => ~ HasMsg("warning")
    /\ flow = "batch" =>
          /\ rejected_count = Cardinality({i \in Counted : ~ Satisfies(jobs[i])})
          /\ \A k \in DOMAIN msgs :
                msgs[k].kind = "info" =>
                    msgs[k].text = ToString(rejected_count) \o " jobs didn't match your criteria"

C6_Witness ==
    /\ flow = "batch"
    /\ pc = "done"
    /\ failure = "append_row"
    /\ Satisfies(jobs[idx])
    /\ HasMsg("error")
    /\ rejected_count = 1

\* the bulk text is valid JSON (an object, or an array of objects) or CSV
\* whose first line names at least one listing field
Parseable(t) ==
    \/ t.fmt \in {"json_array", "json_object"}
          /\ \A k \in DOMAIN t.items : t.items[k].kind = "dict"
    \/ t.fmt = "csv" /\ \E k \in DOMAIN t.header : t.header[k] \in FieldNames

\* C7: for a bulk text that is neither valid JSON nor CSV with usable fields
\* the batch flow reports "could not parse" and goes no further: no listing
\* is evaluated, no spreadsheet call is made, no row is appended.
C7_ParseFailureStops ==
    (flow = "batch" /\ ~ Parseable(text)) =>
        /\ outcome = "not_parsed"
        /\ pc = "done"
        /\ sheetCalls = 0
        /\ sheet.rows = rowsBefore

HeaderCount(rows) == Cardinality({i \in DOMAIN rows : rows[i] = headers})

\* C9: persistence only appends, header first: the rows the table had before
\* a submission are still there in the same places after it; a table that
\* did not exist or was empty gets the header as its first row, once, and a
\* table that has the header never gets it again.
C9_AppendOnly ==
    /\ IsPrefix(sheet0.rows, sheet.rows)
    /\ IsPrefix(rowsBefore, sheet.rows)
    /\ sheet0.rows = <<>> =>
          /\ sheet.rows # <<>> => sheet.rows[1] = headers
          /\ HeaderCount(sheet.rows) <= 1
    /\ (sheet0.rows # <<>> /\ sheet0.rows[1] = headers) => HeaderCount(sheet.rows) = 1

C9_Witness ==
    /\ sheet0.rows = <<>>
    /\ Len(rowsBefore) = 2
    /\ Len(sheet.rows) = 3
    /\ sheet.rows[1] = headers

\* C10: in the batch flow the appended data rows are the rows of the matched
\* listings among those processed, one each, in input order, and there are
\* matching_count of them, also in a run that aborts.
C10_RowsAreMatches ==
    flow = "batch" =>
        /\ Len(appended) = matching_count
        /\ \A k \in DOMAIN appended :
              /\ appended[k] \in Counted
              /\ matches_criteria(jobs[appended[k]]).ok
              /\ \A m \in DOMAIN appended : k < m => appended[k] < appended[m]
        /\ \A i \in Counted :
              matches_criteria(jobs[i]).ok => \E k \in DOMAIN appended : appended[k] = i
        /\ \E h \in {<<>>, <<headers>>} :
              sheet.rows = rowsBefore \o h \o
                  [k \in DOMAIN appended |-> batch_row(jobs[appended[k]])]

C10_Witness ==
    /\ flow = "batch"
    /\ pc = "done"
    /\ outcome = "aborted"
    /\ Len(jobs) = 2
    /\ appended = <<1>>
    /\ matching_count = 1

====
